---------------------------- MODULE Spec2Model ----------------------------
(* A model of m3trans: the library model (src/library), the diagnostic     *)
(* printer (src/bin/checkkind.rs) and the translation pipeline             *)
(* (src/main.rs).                                                          *)
(*                                                                         *)
(* Strings are sequences of tokens (a token stands for one character or a  *)
(* run of characters that contains no separator).  Option<T> is a sequence *)
(* of length 0 (None) or 1 (Some).  A path is the sequence of its          *)
(* components plus an "absolute" flag; a component is a token sequence.    *)
EXTENDS Integers, Sequences, FiniteSets, TLC

VARIABLES
    pc,                   \* position of the running program
    raw,                  \* the deserialized raw::Library (moved into from_raw)
    playlists,            \* Library::playlists  (id -> Playlist)
    playlist_index,       \* Library::playlist_index
    tracks,               \* Library::tracks     (id -> Track)
    stack,                \* call stack of visit_playlists_inner
    visits,               \* history: the visitor calls made so far, <<id, depth>>
    last_depth,           \* the visitor closures' last_depth
    current_path,         \* the visitor closures' current_path
    printed,              \* checkkind's standard output
    args,                 \* m3trans: Args (output_path, dry_run)
    ignore_pats,          \* m3trans: the patterns parse_ignores returned
    dirs,                 \* file system: the directories that exist
    files,                \* file system: path -> content of the regular files
    remote_paths,         \* copy_tracks: track id -> output-relative path
    pending,              \* copy_tracks: tracks the for loop has yet to take
    attempted,            \* history: tracks fs::copy was called for
    output_root_relative, \* copy_playlists: the closure's output_root_relative
    last_emit,            \* history: what the last visitor call did
    panic_at,             \* where the program panicked, "none" if nowhere
    log                   \* the messages logged

mainVars == <<args, ignore_pats, dirs, files, remote_paths, pending, attempted,
              output_root_relative, last_emit, panic_at, log>>

vars == <<pc, raw, playlists, playlist_index, tracks, stack, visits,
          last_depth, current_path, printed, mainVars>>

--------------------------------------------------------------------------
(* Bounds                                                                  *)

MaxPlaylists == 3

StackCap == MaxPlaylists + 2

--------------------------------------------------------------------------
(* Option, sequences                                                       *)

None == <<>>

Some(x) == <<x>>

Last(s) == s[Len(s)]

Front(s) == SubSeq(s, 1, Len(s) - 1)

Range(s) == {s[i] : i \in 1..Len(s)}

RECURSIVE SetToSeqs(_)
SetToSeqs(S) ==
    IF S = {} THEN {<<>>}
    ELSE UNION {{<<x>> \o t : t \in SetToSeqs(S \ {x})} : x \in S}

SeqsUpTo(S, n) == UNION {[1..k -> S] : k \in 0..n}

--------------------------------------------------------------------------
(* u64::from_str_radix                                                     *)

Digits == <<"0", "1", "2", "3", "4", "5", "6", "7", "8", "9">>

LowerHex == <<"a", "b", "c", "d", "e", "f">>

UpperHex == <<"A", "B", "C", "D", "E", "F">>

IndexOf(s, c) == CHOOSE i \in 1..Len(s) : s[i] = c

\* char::to_digit(radix)
ToDigit(c, radix) ==
    LET v == IF c \in Range(Digits) THEN Some(IndexOf(Digits, c) - 1)
             ELSE IF c \in Range(LowerHex) THEN Some(IndexOf(LowerHex, c) + 9)
             ELSE IF c \in Range(UpperHex) THEN Some(IndexOf(UpperHex, c) + 9)
             ELSE None
    IN IF v /= None /\ v[1] < radix THEN v ELSE None

RECURSIVE ParseDigits(_, _, _)
ParseDigits(s, radix, acc) ==
    IF s = <<>> THEN Some(acc)
    ELSE LET d == ToDigit(s[1], radix)
         IN IF d = None THEN None
            ELSE ParseDigits(Tail(s), radix, acc * radix + d[1])

\* Some(value), or None for Err(ParseIntError): empty, a lone sign or an
\* invalid digit.  For an unsigned type only a leading "+" is a sign.  The id
\* strings of the model are a few digits long, far from a u64 overflow.
FromStrRadix(s, radix) ==
    IF s = <<>> THEN None
    ELSE IF s = <<"+">> \/ s = <<"-">> THEN None
    ELSE IF s[1] = "+" THEN ParseDigits(Tail(s), radix, 0)
    ELSE ParseDigits(s, radix, 0)

--------------------------------------------------------------------------
(* std::path                                                               *)

\* Split a token sequence at every separator token.
RECURSIVE SplitOn(_, _, _)
SplitOn(s, sep, cur) ==
    IF s = <<>> THEN <<cur>>
    ELSE IF s[1] = sep THEN <<cur>> \o SplitOn(Tail(s), sep, <<>>)
    ELSE SplitOn(Tail(s), sep, Append(cur, s[1]))

RECURSIVE SelectComps(_)
SelectComps(cs) ==
    IF cs = <<>> THEN <<>>
    ELSE IF cs[1] = <<>> \/ cs[1] = <<".">> THEN SelectComps(Tail(cs))
    ELSE <<cs[1]>> \o SelectComps(Tail(cs))

\* Path::components of a string: repeated separators and "." components vanish.
PathOf(s) ==
    [abs |-> s /= <<>> /\ s[1] = "/", comps |-> SelectComps(SplitOn(s, "/", <<>>))]

EmptyPath == [abs |-> FALSE, comps |-> <<>>]

\* Path::join / PathBuf::push: an absolute argument replaces the path.
Join(p, q) ==
    IF q.abs THEN q ELSE [abs |-> p.abs, comps |-> p.comps \o q.comps]

\* PathBuf::pop: truncate to the parent; false (no change) when there is none.
Pop(p) ==
    IF p.comps = <<>> THEN p ELSE [p EXCEPT !.comps = Front(p.comps)]

\* Path::strip_prefix: Some(rest), or None for Err(StripPrefixError).
StripPrefix(p, base) ==
    IF /\ p.abs = base.abs
       /\ Len(base.comps) <= Len(p.comps)
       /\ SubSeq(p.comps, 1, Len(base.comps)) = base.comps
    THEN Some([abs |-> FALSE,
               comps |-> SubSeq(p.comps, Len(base.comps) + 1, Len(p.comps))])
    ELSE None

\* Position of the last "." of a file name that starts an extension, or 0.
LastDot(name) ==
    LET dots == {i \in 2..Len(name) : name[i] = "."}
    IN IF name = <<"..">> \/ dots = {} THEN 0
       ELSE CHOOSE i \in dots : \A j \in dots : j <= i

\* Path::extension
Extension(p) ==
    IF p.comps = <<>> THEN None
    ELSE LET name == Last(p.comps)
             d == LastDot(name)
         IN IF d = 0 THEN None ELSE Some(SubSeq(name, d + 1, Len(name)))

\* PathBuf::set_extension
SetExtension(p, ext) ==
    IF p.comps = <<>> \/ Last(p.comps) = <<"..">> THEN p
    ELSE LET name == Last(p.comps)
             d == LastDot(name)
             stem == IF d = 0 THEN name ELSE SubSeq(name, 1, d - 1)
             new == IF ext = <<>> THEN stem ELSE stem \o <<".">> \o ext
         IN [p EXCEPT !.comps = Append(Front(p.comps), new)]

--------------------------------------------------------------------------
(* src/library/mod.rs                                                      *)

Generic == [kind |-> "Generic", code |-> 0]

Folder == [kind |-> "Folder", code |-> 0]

Master == [kind |-> "Master", code |-> 0]

Unknown(code) == [kind |-> "Unknown", code |-> code]

playlist_kind(r) ==
    IF r.is_master THEN Master
    ELSE IF r.is_folder THEN Folder
    ELSE IF r.distinguished_kind = None THEN Generic
    ELSE Unknown(r.distinguished_kind[1])

\* Option<String>::map(from_str_radix).transpose(): Some(parent_id), or
\* None for the Err.
ParseParent(parsed) == IF parsed = None THEN None ELSE Some(parsed)

\* The struct Playlist::from_raw builds once both ids are parsed (`?`).
MakePlaylist(r, order_key, id, parent) ==
    IF id = None \/ parent = None THEN None
    ELSE Some([persistent_id |-> id[1],
               parent_id |-> parent[1],
               name |-> r.name,
               kind |-> playlist_kind(r),
               items |-> r.items,
               order_key |-> order_key])

\* Playlist::from_raw: Some(playlist), or None for Err(InvalidPlaylistId).
PlaylistFromRaw(r, order_key) ==
    MakePlaylist(r, order_key, FromStrRadix(r.persistent_id, 16),
                 IF r.parent_id = None THEN Some(None)
                 ELSE ParseParent(FromStrRadix(r.parent_id[1], 16)))

RECURSIVE FoldPlaylists(_, _, _)

\* The closure of the try_fold: `?` on the parsed playlist p, then insert.
FoldStep(rs, i, map, p) ==
    IF p = None THEN None
    ELSE FoldPlaylists(rs, i + 1,
             [k \in DOMAIN map \cup {p[1].persistent_id} |->
                 IF k = p[1].persistent_id THEN p[1] ELSE map[k]])

\* The try_fold of from_raw over raw.playlists[i..], inserting into the map.
FoldPlaylists(rs, i, map) ==
    IF i > Len(rs) THEN Some(map)
    ELSE FoldStep(rs, i, map, PlaylistFromRaw(rs[i], i - 1))

EmptyMap == [k \in {} |-> 0]

\* Ord for Option<u64>: None sorts before every Some.
OptLess(a, b) ==
    IF a = None THEN b /= None ELSE b /= None /\ a[1] < b[1]

\* A comparator that breaks ties by playlist id instead of order_key.
IndexLessById(map, a, b) ==
    \/ OptLess(a[1], b[1])
    \/ a[1] = b[1] /\ a[2] < b[2]

\* The comparator of sort_unstable_by: Ordering::Less.
IndexLess(map, a, b) ==
    \/ OptLess(a[1], b[1])
    \/ a[1] = b[1] /\ map[a[2]].order_key < map[b[2]].order_key

RECURSIVE InsertSorted(_, _, _)
InsertSorted(map, s, e) ==
    IF s = <<>> THEN <<e>>
    ELSE IF IndexLess(map, e, s[1]) THEN <<e>> \o s
    ELSE <<s[1]>> \o InsertSorted(map, Tail(s), e)

RECURSIVE SortIndex(_, _)
SortIndex(map, s) ==
    IF s = <<>> THEN <<>>
    ELSE InsertSorted(map, SortIndex(map, Tail(s)), s[1])

\* playlists.values().map(..).collect(): the map's entries in the iteration
\* order `order` of the HashMap.
CollectIndex(map, order) ==
    [i \in 1..Len(order) |-> <<map[order[i]].parent_id, order[i]>>]

\* binary_search_by_key(&node_id, |(parent, _)| *parent): Some(position of a
\* match) or None.
RECURSIVE BinarySearch(_, _, _, _)
BinarySearch(index, key, lo, hi) ==
    IF lo >= hi THEN None
    ELSE LET mid == lo + (hi - lo) \div 2
         IN IF index[mid + 1][1] = key THEN Some(mid)
            ELSE IF OptLess(index[mid + 1][1], key)
                 THEN BinarySearch(index, key, mid + 1, hi)
                 ELSE BinarySearch(index, key, lo, mid)

\* A traversal that starts at the match the search returned.
RunStartAtMatch(index, key, child) == child

\* The first while loop: walk back to the start of the run.
RECURSIVE RunStart(_, _, _)
RunStart(index, key, child) ==
    IF child > 0 /\ index[child][1] = key
    THEN RunStart(index, key, child - 1)
    ELSE child

\* `if let Ok(mut child) = child` and the first while loop.
FirstChild(index, node_id, found) ==
    IF found = None THEN Len(index) ELSE RunStart(index, node_id, found[1])

\* The frame visit_playlists_inner(node_id, depth) starts with; child is the
\* 0-based position of the next entry, Len(index) when the search fails.
NewFrame(index, node_id, depth) ==
    [node |-> node_id,
     depth |-> depth,
     child |-> FirstChild(index, node_id, BinarySearch(index, node_id, 0, Len(index)))]

\* A loop that runs to the end of the index, whatever the parent.
HasChildAnyParent(index, f) == f.child < Len(index)

\* The second while loop's condition.
HasChild(index, f) ==
    f.child < Len(index) /\ index[f.child + 1][1] = f.node

--------------------------------------------------------------------------
(* Track import (from_raw, process_track)                                  *)

\* percent_decode_str(..).decode_utf8() on one token: an escape token decodes
\* to the character it encodes; "%FF" is a byte that is not UTF-8.
DecodeToken(t) ==
    CASE t = "%20" -> Some(" ")
      [] t = "%2F" -> Some("/")
      [] t = "%2E" -> Some(".")
      [] t = "%FF" -> None
      [] OTHER -> Some(t)

\* One decoded token before the decoded rest, None when either is invalid.
Prepend(h, t) == IF h = None \/ t = None THEN None ELSE Some(<<h[1]>> \o t[1])

RECURSIVE PercentDecode(_)
PercentDecode(s) ==
    IF s = <<>> THEN Some(<<>>)
    ELSE Prepend(DecodeToken(s[1]), PercentDecode(Tail(s)))

\* Track { location, ..track }, or None for the Err of decode_utf8.
WithLocation(track, location) ==
    IF location = None THEN None
    ELSE Some([track EXCEPT !.location = location[1]])

\* process_track: Some(track) or None for Err(NonUtf8Path).
process_track(track) == WithLocation(track, PercentDecode(track.location))

RECURSIVE CollectTracks(_, _, _)

\* The closure of the map over raw.tracks, on a parsed id and a processed
\* track, and the insertion into the map being collected.
CollectStep(rt, order, map, id, t) ==
    IF id = None
    THEN [ok |-> FALSE, map |-> EmptyMap, err |-> "InvalidTrackId"]
    ELSE IF t = None
    THEN [ok |-> FALSE, map |-> EmptyMap, err |-> "NonUtf8Path"]
    ELSE CollectTracks(rt, Tail(order),
             [k \in DOMAIN map \cup {id[1]} |->
                 IF k = id[1] THEN t[1] ELSE map[k]])

\* raw.tracks.into_iter().map(..).collect() in the iteration order `order`:
\* [ok, map] or [ok |-> FALSE, err].
CollectTracks(rt, order, map) ==
    IF order = <<>> THEN [ok |-> TRUE, map |-> map, err |-> "none"]
    ELSE CollectStep(rt, order, map, FromStrRadix(order[1], 10),
                     process_track(rt[order[1]]))

\* from_raw once the playlists are folded and the tracks collected.
BuildLibrary(folded, ts, order) ==
    IF folded = None
    THEN [ok |-> FALSE, err |-> "InvalidPlaylistId", playlists |-> EmptyMap,
          playlist_index |-> <<>>, tracks |-> EmptyMap]
    ELSE [ok |-> ts.ok, err |-> ts.err,
          playlists |-> folded[1],
          playlist_index |-> SortIndex(folded[1], CollectIndex(folded[1], order)),
          tracks |-> ts.map]

\* Library::from_raw, given the HashMap iteration orders it meets.
LibraryFromRaw(r, order, track_order) ==
    BuildLibrary(FoldPlaylists(r.playlists, 1, EmptyMap),
                 CollectTracks(r.tracks, track_order, EmptyMap), order)

\* The keys of the playlist map from_raw builds.
FoldedIds(folded) == IF folded = None THEN {} ELSE DOMAIN folded[1]

\* The iteration orders a HashMap with these keys can have.
PlaylistOrders(r) ==
    SetToSeqs(FoldedIds(FoldPlaylists(r.playlists, 1, EmptyMap)))

ConsumedRaw == [playlists |-> <<>>, tracks |-> EmptyMap]

--------------------------------------------------------------------------
(* visit_playlists                                                         *)

Top == stack[Len(stack)]

\* visit_playlists_inner returns: the caller resumes after the call, at
\* `child += 1`.
ReturnFrom(st) ==
    LET rest == Front(st)
    IN IF rest = <<>> THEN rest
       ELSE [rest EXCEPT ![Len(rest)].child = @ + 1]

RECURSIVE PopN(_, _)
PopN(p, n) == IF n = 0 THEN p ELSE PopN(Pop(p), n - 1)

--------------------------------------------------------------------------
(* src/bin/checkkind.rs                                                    *)

\* The visitor closure: the path after the pops and the push.
KindPath(id, depth) ==
    LET popped == IF last_depth /= None /\ depth <= last_depth[1]
                  THEN PopN(current_path, last_depth[1] - depth + 1)
                  ELSE current_path
    IN Join(popped, PathOf(playlists[id].name))

\* main, up to the call of visit_playlists: from_raw(..).unwrap().
KindLoad ==
    /\ pc = "kind_start"
    /\ \E order \in PlaylistOrders(raw), track_order \in SetToSeqs(DOMAIN raw.tracks) :
        \E lib \in {LibraryFromRaw(raw, order, track_order)} :
           /\ pc' = IF lib.ok THEN "kind_visit" ELSE "kind_panic"
           /\ playlists' = lib.playlists
           /\ playlist_index' = lib.playlist_index
           /\ tracks' = lib.tracks
           /\ stack' = IF lib.ok THEN <<NewFrame(lib.playlist_index, None, 0)>>
                       ELSE <<>>
    /\ raw' = ConsumedRaw
    /\ last_depth' = None
    /\ current_path' = PathOf(<<"/">>)
    /\ UNCHANGED <<visits, printed, mainVars>>

\* One iteration of the second while loop: the visitor runs, then the
\* recursive call starts.
KindVisit ==
    /\ pc = "kind_visit"
    /\ stack /= <<>>
    /\ HasChild(playlist_index, Top)
    /\ Len(stack) < StackCap
    /\ \E child_id \in {playlist_index[Top.child + 1][2]}, depth \in {Top.depth} :
          /\ visits' = Append(visits, <<child_id, depth>>)
          /\ current_path' = KindPath(child_id, depth)
          /\ printed' = Append(printed, [path |-> current_path',
                                         kind |-> playlists[child_id].kind])
          /\ last_depth' = Some(depth)
          /\ stack' = Append(stack,
                 NewFrame(playlist_index, Some(child_id), depth + 1))
    /\ UNCHANGED <<pc, raw, playlists, playlist_index, tracks, mainVars>>

\* A call of visit_playlists_inner returns; the outermost return ends main.
KindReturn ==
    /\ pc = "kind_visit"
    /\ stack /= <<>>
    /\ ~HasChild(playlist_index, Top)
    /\ stack' = ReturnFrom(stack)
    /\ pc' = IF ReturnFrom(stack) = <<>> THEN "kind_done" ELSE pc
    /\ UNCHANGED <<raw, playlists, playlist_index, tracks, visits,
                   last_depth, current_path, printed, mainVars>>

--------------------------------------------------------------------------
(* src/main.rs                                                             *)

TRACKS_DIR == <<"tracks">>

PLAYLISTS_DIR == <<"playlists">>

LOCAL_PREFIX == <<"file:", "/", "/", "localhost", "/">>

\* str::strip_prefix: Some(rest) or None.
StrStripPrefix(s, prefix) ==
    IF Len(prefix) <= Len(s) /\ SubSeq(s, 1, Len(prefix)) = prefix
    THEN Some(SubSeq(s, Len(prefix) + 1, Len(s)))
    ELSE None

\* A directory exists: the root and the working directory always do.
DirExists(p) == p.comps = <<>> \/ p \in dirs

\* What fs::create_dir_all creates: the path and its ancestors.
Ancestors(p) ==
    {[abs |-> p.abs, comps |-> SubSeq(p.comps, 1, k)] : k \in 1..Len(p.comps)}

\* fs::create_dir: the parent must exist and the path must not.
CanCreateDir(p) ==
    /\ p.comps /= <<>>
    /\ DirExists(Pop(p))
    /\ p \notin dirs
    /\ p \notin DOMAIN files

\* File::create: the parent directory must exist, the path be no directory.
CanCreateFile(p) ==
    /\ p.comps /= <<>>
    /\ DirExists(Pop(p))
    /\ p \notin dirs

WithFile(fs, p, content) ==
    [q \in DOMAIN fs \cup {p} |-> IF q = p THEN content ELSE fs[q]]

\* glob::Pattern::matches_path for a pattern without wildcards.
Matches(pat, virtual_path) == PathOf(pat).comps = virtual_path.comps

\* A remote path that drops the extension of the source file.
RemotePathNoExtension(track_id, local_path) ==
    PathOf(TRACKS_DIR \o <<"/", ToString(track_id)>>)

\* copy_tracks: remote_path of a track.
RemotePath(track_id, local_path) ==
    IF Extension(local_path) /= None
    THEN SetExtension(PathOf(TRACKS_DIR \o <<"/", ToString(track_id)>>),
                      Extension(local_path)[1])
    ELSE PathOf(TRACKS_DIR \o <<"/", ToString(track_id)>>)

\* copy_tracks: local_path of a track, None for an unknown schema.
LocalPath(track) ==
    IF StrStripPrefix(track.location, LOCAL_PREFIX) = None THEN None
    ELSE Some(PathOf(StrStripPrefix(track.location, LOCAL_PREFIX)[1]))

\* args.output_path.join(PLAYLISTS_DIR)
PlaylistsDir == Join(args.output_path, PathOf(PLAYLISTS_DIR))

TracksDir == Join(args.output_path, PathOf(TRACKS_DIR))

\* The for loop of write_m3u over items[i..]: the entries written and how
\* the loop ended ("ok", or the index expression that panicked).  An entry
\* keeps the track's duration_ms, from which duration_secs is computed.
RECURSIVE WriteEntries(_, _, _, _)
WriteEntries(root_prefix, items, i, written) ==
    IF i > Len(items) THEN [entries |-> written, end |-> "ok"]
    ELSE IF items[i] \notin DOMAIN tracks
         THEN [entries |-> written, end |-> "library.tracks[&track_id]"]
    ELSE IF items[i] \notin DOMAIN remote_paths
         THEN [entries |-> written, end |-> "remote_paths[&track_id]"]
    ELSE WriteEntries(root_prefix, items, i + 1,
             Append(written, [path |-> Join(root_prefix, remote_paths[items[i]]),
                              name |-> tracks[items[i]].name,
                              duration_ms |-> tracks[items[i]].duration_ms]))

\* write_m3u: whether the file was created, what it holds, how the call ended
\* ("ok", "err" for the io::Error of File::create, or a panic).
write_m3u(root_prefix, playlist, path) ==
    IF ~CanCreateFile(path)
    THEN [created |-> FALSE, entries |-> <<>>, end |-> "err"]
    ELSE [created |-> TRUE,
          entries |-> WriteEntries(root_prefix, playlist.items, 1, <<>>).entries,
          end |-> WriteEntries(root_prefix, playlist.items, 1, <<>>).end]

NoEmit == [outcome |-> "none", path |-> EmptyPath, entries |-> <<>>]

\* main, up to the call of copy_tracks: from_raw(..).unwrap().
MainLoad ==
    /\ pc = "start"
    /\ \E order \in PlaylistOrders(raw), track_order \in SetToSeqs(DOMAIN raw.tracks) :
        \E lib \in {LibraryFromRaw(raw, order, track_order)} :
           /\ pc' = IF lib.ok THEN "copy_tracks" ELSE "panic"
           /\ panic_at' = IF lib.ok THEN "none" ELSE "from_raw.unwrap"
           /\ playlists' = lib.playlists
           /\ playlist_index' = lib.playlist_index
           /\ tracks' = lib.tracks
    /\ raw' = ConsumedRaw
    /\ UNCHANGED <<stack, visits, last_depth, current_path, printed, args,
                   ignore_pats, dirs, files, remote_paths, pending, attempted,
                   output_root_relative, last_emit, log>>

\* copy_tracks, up to the for loop: create_dir_all of the tracks directory,
\* whose io::Error the function returns (and main with it).
CopyTracksBegin ==
    /\ pc = "copy_tracks"
    /\ \E ok \in (IF DirExists(TracksDir) THEN {TRUE} ELSE BOOLEAN) :
        /\ pc' = IF ok THEN "copy_loop" ELSE "io_error"
        /\ dirs' = IF ok THEN dirs \cup Ancestors(TracksDir) ELSE dirs
    /\ remote_paths' = EmptyMap
    /\ pending' = DOMAIN tracks
    /\ UNCHANGED <<raw, playlists, playlist_index, tracks, stack, visits,
                   last_depth, current_path, printed, args, ignore_pats, files,
                   attempted, output_root_relative, last_emit, panic_at, log>>

\* One iteration of the for loop of copy_tracks, in the HashMap's order;
\* `copied` is whether fs::copy returns Ok.
CopyTrack ==
    /\ pc = "copy_loop"
    /\ \E track_id \in pending, copied \in BOOLEAN :
       \E local_path \in {LocalPath(tracks[track_id])} :
       \E copy \in {local_path /= None /\ ~args.dry_run} :
       \E remote_path \in {IF copy THEN RemotePath(track_id, local_path[1])
                            ELSE EmptyPath} :
           /\ pending' = pending \ {track_id}
           /\ ~copy => copied
           /\ attempted' = IF copy THEN attempted \cup {track_id} ELSE attempted
           /\ files' = IF copy /\ copied
                       THEN WithFile(files, Join(args.output_path, remote_path), <<>>)
                       ELSE files
           /\ remote_paths' =
                  IF copy /\ copied
                  THEN [k \in DOMAIN remote_paths \cup {track_id} |->
                           IF k = track_id THEN remote_path ELSE remote_paths[k]]
                  ELSE remote_paths
           /\ log' = IF local_path = None
                     THEN log \cup {<<"warn", "unknown schema", track_id>>}
                     ELSE IF args.dry_run
                     THEN log \cup {<<"info", "copy file", track_id>>}
                     ELSE IF copied THEN log
                     ELSE log \cup {<<"error", "failed to copy", track_id>>}
    /\ UNCHANGED <<pc, raw, playlists, playlist_index, tracks, stack, visits,
                   last_depth, current_path, printed, args, ignore_pats, dirs,
                   output_root_relative, last_emit, panic_at>>

\* The for loop is over: copy_tracks returns Ok(remote_paths).
CopyTracksReturn ==
    /\ pc = "copy_loop"
    /\ pending = {}
    /\ pc' = "copy_playlists"
    /\ UNCHANGED <<raw, playlists, playlist_index, tracks, stack, visits,
                   last_depth, current_path, printed, mainVars>>

\* copy_playlists, up to the call of visit_playlists.
PlaylistsBegin ==
    /\ pc = "copy_playlists"
    /\ \E ok \in (IF DirExists(PlaylistsDir) THEN {TRUE} ELSE BOOLEAN) :
        /\ pc' = IF ok THEN "visit" ELSE "io_error"
        /\ dirs' = IF ok THEN dirs \cup Ancestors(PlaylistsDir) ELSE dirs
        /\ stack' = IF ok THEN <<NewFrame(playlist_index, None, 0)>> ELSE <<>>
    /\ last_depth' = None
    /\ current_path' = Join(args.output_path, PlaylistsDir)
    /\ output_root_relative' = EmptyPath
    /\ UNCHANGED <<raw, playlists, playlist_index, tracks, visits, printed,
                   args, ignore_pats, files, remote_paths, pending, attempted,
                   last_emit, panic_at, log>>

\* The number of pops the visitor starts with.
Pops(depth) ==
    IF last_depth /= None /\ depth <= last_depth[1]
    THEN last_depth[1] - depth + 1 ELSE 0

\* What a visitor call leaves when it changes nothing but current_path.
Same(path) ==
    [current_path |-> path, dirs |-> dirs, files |-> files,
     panic |-> "none", emit |-> NoEmit, log |-> {}]

\* The PlaylistKind::Generic arm, w being what write_m3u does at path m3u.
EmitGeneric(id, m3u, w) ==
    IF args.dry_run
    THEN [Same(SetExtension(m3u, <<>>)) EXCEPT
              !.emit = [outcome |-> "dry", path |-> m3u, entries |-> <<>>],
              !.log = {<<"info", "generate m3u", id>>}]
    ELSE [current_path |-> IF w.end \in {"ok", "err"}
                           THEN SetExtension(m3u, <<>>) ELSE m3u,
          dirs |-> dirs,
          files |-> IF w.created THEN WithFile(files, m3u, w.entries) ELSE files,
          panic |-> IF w.end \in {"ok", "err"} THEN "none" ELSE w.end,
          emit |-> [outcome |-> IF w.created THEN "file" ELSE "failed",
                    path |-> m3u, entries |-> w.entries],
          log |-> IF w.end = "err"
                  THEN {<<"error", "failed to generate m3u", id>>} ELSE {}]

\* The PlaylistKind::Folder arm.
EmitFolder(id, path) ==
    IF args.dry_run
    THEN [Same(path) EXCEPT
              !.emit = [outcome |-> "dry", path |-> path, entries |-> <<>>],
              !.log = {<<"info", "generate folder", id>>}]
    ELSE IF CanCreateDir(path)
    THEN [Same(path) EXCEPT
              !.dirs = dirs \cup {path},
              !.emit = [outcome |-> "dir", path |-> path, entries |-> <<>>]]
    ELSE [Same(path) EXCEPT
              !.emit = [outcome |-> "failed", path |-> path, entries |-> <<>>],
              !.log = {<<"error", "failed to generate folder", id>>}]

\* The visitor from the strip_prefix on: pushed and root_relative are
\* current_path and output_root_relative after the pops and the push.
Emit(id, playlist, pushed, root_relative, virtual_path) ==
    IF virtual_path = None
    THEN [Same(pushed) EXCEPT !.panic = "strip_prefix.unwrap"]
    ELSE IF \E pat \in ignore_pats : Matches(pat, virtual_path[1])
    THEN [Same(pushed) EXCEPT
              !.emit = [outcome |-> "ignored", path |-> pushed, entries |-> <<>>],
              !.log = {<<"info", "ignoring playlist", id>>}]
    ELSE IF playlist.kind = Generic
    THEN EmitGeneric(id, SetExtension(pushed, <<"m3u8">>),
             write_m3u(root_relative, playlist, SetExtension(pushed, <<"m3u8">>)))
    ELSE IF playlist.kind = Folder
    THEN EmitFolder(id, pushed)
    ELSE [Same(pushed) EXCEPT !.emit.path = pushed]

\* current_path after the visitor's pops and push.
Pushed(id, depth) ==
    Join(PopN(current_path, Pops(depth)), PathOf(playlists[id].name))

\* output_root_relative after the visitor's pops and push.
RootRelative(depth) ==
    Join(PopN(output_root_relative, Pops(depth)), PathOf(<<"..">>))

\* The visitor closure of copy_playlists on (id, depth): the new closure
\* state, the new file system, what was emitted and how the call ended.
MainVisitor(id, depth, pushed) ==
    Emit(id, playlists[id], pushed, RootRelative(depth),
         StripPrefix(pushed, PlaylistsDir))

\* One iteration of the second while loop of visit_playlists_inner under
\* copy_playlists: the visitor runs, then the recursive call starts.
MainVisit ==
    /\ pc = "visit"
    /\ stack /= <<>>
    /\ HasChild(playlist_index, Top)
    /\ Len(stack) < StackCap
    /\ \E child_id \in {playlist_index[Top.child + 1][2]}, depth \in {Top.depth} :
       \E v \in {MainVisitor(child_id, depth, Pushed(child_id, depth))} :
          /\ visits' = Append(visits, <<child_id, depth>>)
          /\ current_path' = v.current_path
          /\ output_root_relative' = RootRelative(depth)
          /\ dirs' = v.dirs
          /\ files' = v.files
          /\ last_emit' = v.emit
          /\ log' = log \cup v.log
          /\ panic_at' = v.panic
          /\ pc' = IF v.panic = "none" THEN pc ELSE "panic"
          /\ last_depth' = IF v.panic = "none" THEN Some(depth) ELSE last_depth
          /\ stack' = IF v.panic = "none"
                      THEN Append(stack,
                               NewFrame(playlist_index, Some(child_id), depth + 1))
                      ELSE stack
    /\ UNCHANGED <<raw, playlists, playlist_index, tracks, printed, args,
                   ignore_pats, remote_paths, pending, attempted>>

\* A call of visit_playlists_inner returns; after the outermost one
\* copy_playlists and main return Ok(()).
MainReturn ==
    /\ pc = "visit"
    /\ stack /= <<>>
    /\ ~HasChild(playlist_index, Top)
    /\ stack' = ReturnFrom(stack)
    /\ pc' = IF ReturnFrom(stack) = <<>> THEN "done" ELSE pc
    /\ UNCHANGED <<raw, playlists, playlist_index, tracks, visits, last_depth,
                   current_path, printed, mainVars>>

\* The pipeline's variables while the diagnostic printer runs.
MainIdle ==
    /\ args = [output_path |-> EmptyPath, dry_run |-> TRUE]
    /\ ignore_pats = {}
    /\ dirs = {}
    /\ files = EmptyMap
    /\ remote_paths = EmptyMap
    /\ pending = {}
    /\ attempted = {}
    /\ output_root_relative = EmptyPath
    /\ last_emit = NoEmit
    /\ panic_at = "none"
    /\ log = {}

--------------------------------------------------------------------------
(* Inputs of the diagnostic printer                                        *)

LibIdStrs == {<<"1">>, <<"2">>, <<"A">>, <<"G">>}

LibParentStrs == {None, Some(<<"0", "1">>), Some(<<"2">>), Some(<<"a">>)}

PlainName == <<"p">>

LibRecords ==
    {[persistent_id |-> i, parent_id |-> p, name |-> PlainName,
      is_folder |-> FALSE, is_master |-> FALSE, distinguished_kind |-> None,
      items |-> <<>>] : i \in LibIdStrs, p \in LibParentStrs}

Init ==
    /\ pc = "kind_start"
    /\ raw \in {[playlists |-> ps, tracks |-> EmptyMap] :
                   ps \in SeqsUpTo(LibRecords, MaxPlaylists)}
    /\ playlists = EmptyMap
    /\ playlist_index = <<>>
    /\ tracks = EmptyMap
    /\ stack = <<>>
    /\ visits = <<>>
    /\ last_depth = None
    /\ current_path = EmptyPath
    /\ printed = <<>>
    /\ MainIdle

Next == KindLoad \/ KindVisit \/ KindReturn

Spec == Init /\ [][Next]_vars

\* The same program on libraries whose playlists carry different names.
KindIdStrs == {<<"1">>, <<"2">>, <<"3">>}

KindParentStrs == {None, Some(<<"1">>), Some(<<"2">>)}

KindNames == {<<"Rock">>, <<"AC", "/", "DC">>}

KindRecords ==
    {[persistent_id |-> i, parent_id |-> p, name |-> n,
      is_folder |-> f, is_master |-> FALSE, distinguished_kind |-> None,
      items |-> <<>>] :
        i \in KindIdStrs, p \in KindParentStrs, n \in KindNames, f \in {TRUE}}

InitKind ==
    /\ pc = "kind_start"
    /\ raw \in {[playlists |-> ps, tracks |-> EmptyMap] :
                   ps \in SeqsUpTo(KindRecords, MaxPlaylists)}
    /\ playlists = EmptyMap
    /\ playlist_index = <<>>
    /\ tracks = EmptyMap
    /\ stack = <<>>
    /\ visits = <<>>
    /\ last_depth = None
    /\ current_path = EmptyPath
    /\ printed = <<>>
    /\ MainIdle

SpecKind == InitKind /\ [][Next]_vars

--------------------------------------------------------------------------
(* Inputs of the pipeline                                                  *)

MaxMainPlaylists == 2

MaxTracks == 3

OutputPaths == {PathOf(<<"/", "out">>), PathOf(<<"out">>)}

\* What an earlier run into the same output path left behind.
PriorDirs(out) ==
    Ancestors(Join(out, PathOf(PLAYLISTS_DIR \o <<"/", "AC">>)))
        \cup Ancestors(Join(out, PathOf(TRACKS_DIR)))

LocLocalMp3 == LOCAL_PREFIX \o <<"Music", "/", "a", ".", "mp3">>

LocLocalEncoded ==
    <<"file:", "/", "/", "localhost", "/", "My", "%20", "Music", "%2F", "b", ".", "m4a">>

LocNoExtension == LOCAL_PREFIX \o <<"Music", ".", "old", "/", "raw">>

LocHttp == <<"http:", "/", "/", "host", "/", "stream", ".", "mp3">>

LocNotUtf8 == LOCAL_PREFIX \o <<"Music", "/", "%FF", ".", "mp3">>

RawTrack(location) ==
    [name |-> <<"Song">>, location |-> location, duration_ms |-> 1000]

MainKinds ==
    {[is_folder |-> TRUE, is_master |-> FALSE, distinguished_kind |-> None],
     [is_folder |-> FALSE, is_master |-> FALSE, distinguished_kind |-> None],
     [is_folder |-> TRUE, is_master |-> TRUE, distinguished_kind |-> None],
     [is_folder |-> FALSE, is_master |-> FALSE, distinguished_kind |-> Some(4)]}

MainNames == {<<"AC">>, <<"AC", "/", "DC">>}

MainRecords ==
    {[persistent_id |-> i, parent_id |-> p, name |-> n,
      is_folder |-> k.is_folder, is_master |-> k.is_master,
      distinguished_kind |-> k.distinguished_kind, items |-> it] :
        i \in {<<"1">>, <<"2">>}, p \in {None, Some(<<"1">>)}, n \in MainNames,
        k \in MainKinds, it \in {<<>>, <<1>>}}

IgnoreChoices == {{}, {<<"AC">>}}

InitPipeline ==
    /\ pc = "start"
    /\ playlists = EmptyMap
    /\ playlist_index = <<>>
    /\ tracks = EmptyMap
    /\ stack = <<>>
    /\ visits = <<>>
    /\ last_depth = None
    /\ current_path = EmptyPath
    /\ printed = <<>>
    /\ args \in {[output_path |-> o, dry_run |-> d] :
                    o \in OutputPaths, d \in BOOLEAN}
    /\ dirs \in {{}, PriorDirs(args.output_path)}
    /\ files = EmptyMap
    /\ remote_paths = EmptyMap
    /\ pending = {}
    /\ attempted = {}
    /\ output_root_relative = EmptyPath
    /\ last_emit = NoEmit
    /\ panic_at = "none"
    /\ log = {}

InitMain ==
    /\ raw \in {[playlists |-> ps, tracks |-> ts] :
                   ps \in SeqsUpTo(MainRecords, MaxMainPlaylists),
                   ts \in {[k \in {<<"1">>} |-> RawTrack(LocLocalMp3)]}}
    /\ ignore_pats \in IgnoreChoices
    /\ InitPipeline

NextMain ==
    \/ MainLoad
    \/ CopyTracksBegin
    \/ CopyTrack
    \/ CopyTracksReturn
    \/ PlaylistsBegin
    \/ MainVisit
    \/ MainReturn

SpecMain == InitMain /\ [][NextMain]_vars

\* copy_tracks alone, on libraries of tracks.
TrackKeys == {<<"1">>, <<"0", "1">>, <<"2">>, <<"3">>, <<"x">>}

TrackLocations ==
    {LocLocalMp3, LocLocalEncoded, LocNoExtension, LocHttp, LocNotUtf8}

KeySets == {S \in SUBSET TrackKeys : Cardinality(S) <= MaxTracks}

InitTracks ==
    /\ raw \in {[playlists |-> <<>>, tracks |-> ts] :
                   ts \in UNION {[S -> {RawTrack(l) : l \in TrackLocations}] :
                                    S \in KeySets}}
    /\ ignore_pats = {}
    /\ InitPipeline

NextTracks ==
    \/ MainLoad
    \/ CopyTracksBegin
    \/ CopyTrack
    \/ CopyTracksReturn

SpecTracks == InitTracks /\ [][NextTracks]_vars

--------------------------------------------------------------------------
(* Reference definitions the claims are stated with                        *)

Loaded == pc \in {"kind_visit", "kind_done"}

Ids(map) == DOMAIN map

ChildrenOf(map, node) == {id \in Ids(map) : map[id].parent_id = node}

\* A set of playlists as the sequence of increasing order_key.
RECURSIVE ByOrderKey(_, _)
ByOrderKey(map, S) ==
    IF S = {} THEN <<>>
    ELSE LET first == CHOOSE x \in S :
                          \A y \in S : map[x].order_key <= map[y].order_key
         IN <<first>> \o ByOrderKey(map, S \ {first})

RECURSIVE Concat(_)
Concat(ss) == IF ss = <<>> THEN <<>> ELSE ss[1] \o Concat(Tail(ss))

\* The pre-order linearization of the forest below `node`.
RECURSIVE PreOrder(_, _, _)
PreOrder(map, node, depth) ==
    LET cs == ByOrderKey(map, ChildrenOf(map, node))
    IN Concat([i \in 1..Len(cs) |->
                  <<<<cs[i], depth>>>> \o PreOrder(map, Some(cs[i]), depth + 1)])

\* The k-th ancestor of a playlist (0: itself), None past a root or a
\* parent id no playlist has.
RECURSIVE Ancestor(_, _, _)
Ancestor(map, id, k) ==
    IF k = 0 THEN Some(id)
    ELSE LET a == Ancestor(map, id, k - 1)
         IN IF a = None \/ a[1] \notin Ids(map) THEN None
            ELSE map[a[1]].parent_id

\* Reachable through parent links from a playlist with an absent parent id.
Rooted(map, id) ==
    \E k \in 0..Cardinality(Ids(map)) - 1 :
        /\ \A j \in 0..k : Ancestor(map, id, j) /= None
                             /\ Ancestor(map, id, j)[1] \in Ids(map)
        /\ map[Ancestor(map, id, k)[1]].parent_id = None

\* Some playlist is its own ancestor.
OnCycle(map, id) ==
    \E k \in 1..Cardinality(Ids(map)) : Ancestor(map, id, k) = Some(id)

HasCycle(map) == \E id \in Ids(map) : OnCycle(map, id)

IsPrefix(s, t) == Len(s) <= Len(t) /\ s = SubSeq(t, 1, Len(s))

NoDuplicates(s) == \A i, j \in 1..Len(s) : s[i] = s[j] => i = j

\* Position (from 0) of the record a playlist of the map was imported from:
\* the last record of the raw list with its id.
ImportPos(r, id) ==
    LET hits == {i \in 1..Len(r.playlists) :
                    FromStrRadix(r.playlists[i].persistent_id, 16) = Some(id)}
    IN (CHOOSE i \in hits : \A j \in hits : j <= i) - 1

--------------------------------------------------------------------------
(* C1: visit_playlists calls the visitor exactly once for every playlist   *)
(* reachable from a playlist with absent parent id, in depth-first         *)
(* pre-order, siblings in import order, with depth 0 at a root and one     *)
(* more than the parent's below it: the emitted <<id, depth>> sequence is  *)
(* the pre-order linearization of the forest.                              *)
C1_VisitIsPreOrder ==
    /\ pc = "kind_visit" =>
           IsPrefix(visits, PreOrder(playlists, None, 0))
    /\ pc = "kind_done" =>
           /\ visits = PreOrder(playlists, None, 0)
           /\ NoDuplicates([i \in 1..Len(visits) |-> visits[i][1]])
           /\ {visits[i][1] : i \in 1..Len(visits)} =
                  {id \in Ids(playlists) : Rooted(playlists, id)}

\* A finished traversal of a folder with a child, followed by a second root.
C1_Witness ==
    /\ pc = "kind_done"
    /\ Len(visits) = 3
    /\ visits[1][2] = 0 /\ visits[2][2] = 1 /\ visits[3][2] = 0

--------------------------------------------------------------------------
(* C9: after from_raw succeeds, playlist_index holds one (parent_id,       *)
(* playlist_id) entry per playlist of the map, sorted by parent_id with    *)
(* the absent parent first, entries of one parent contiguous and in        *)
(* increasing order_key, which is the import order of the raw list; every  *)
(* playlist_id of the index is in the map.                                 *)
IndexInvariant(r, map, index) ==
    /\ Len(index) = Cardinality(Ids(map))
    /\ {index[i][2] : i \in 1..Len(index)} = Ids(map)
    /\ \A i \in 1..Len(index) : index[i][1] = map[index[i][2]].parent_id
    /\ \A i, j \in 1..Len(index) :
          i < j => /\ ~OptLess(index[j][1], index[i][1])
                   /\ index[i][1] = index[j][1] =>
                          /\ \A k \in i..j : index[k][1] = index[i][1]
                          /\ map[index[i][2]].order_key < map[index[j][2]].order_key
                          /\ ImportPos(r, index[i][2]) < ImportPos(r, index[j][2])
    /\ \A id \in Ids(map) : map[id].order_key = ImportPos(r, id)

C9_IndexSortedByParentThenImportOrder ==
    [][pc = "kind_start" /\ pc' = "kind_visit" =>
          IndexInvariant(raw, playlists', playlist_index')]_vars

\* Two siblings indexed in import order against their id order, after a root.
C9_Witness ==
    /\ pc = "kind_visit"
    /\ Len(playlist_index) = 3
    /\ playlist_index[1][1] = None
    /\ playlist_index[2][1] = playlist_index[3][1]
    /\ playlist_index[2][2] > playlist_index[3][2]

--------------------------------------------------------------------------
(* C10 (as claimed): when the parent ids form a cyclic chain,              *)
(* visit_playlists recurses without terminating, so it never returns.      *)
C10_CycleNeverReturns ==
    HasCycle(playlists) => pc /= "kind_done"

(* C10 (amended): a playlist on a cyclic parent chain, or below one, has   *)
(* no ancestor with an absent parent id, so the traversal never reaches    *)
(* it.  With a cycle among the parent ids, visit_playlists still visits    *)
(* only playlists reachable from a root, each at most once, its recursion  *)
(* is never deeper than the number of playlists plus one, and it always    *)
(* has a next step until it returns: it terminates.                        *)
C10_CycleIsNeverReached ==
    (Loaded /\ HasCycle(playlists)) =>
        /\ \A i \in 1..Len(visits) :
               /\ Rooted(playlists, visits[i][1])
               /\ ~OnCycle(playlists, visits[i][1])
        /\ NoDuplicates([i \in 1..Len(visits) |-> visits[i][1]])
        /\ Len(stack) <= Cardinality(Ids(playlists)) + 1
        /\ pc = "kind_visit" =>
               /\ stack /= <<>>
               /\ HasChild(playlist_index, Top) => Len(stack) < StackCap

\* A traversal that returned from a library with a cycle and a root.
C10_Witness ==
    /\ pc = "kind_done"
    /\ HasCycle(playlists)
    /\ visits /= <<>>

--------------------------------------------------------------------------
(* Reference definitions for the pipeline's claims                         *)

RealRun == ~args.dry_run

Visiting == pc \in {"visit", "done"} /\ visits /= <<>>

LastId == Last(visits)[1]

LastDepth == Last(visits)[2]

\* <output>/playlists
OutputPlaylists ==
    [abs |-> args.output_path.abs,
     comps |-> args.output_path.comps \o <<PLAYLISTS_DIR>>]

\* The names from the root ancestor down to a playlist, as one relative path.
RECURSIVE NamePath(_, _, _)
NamePath(map, id, fuel) ==
    IF fuel = 0 \/ id \notin Ids(map) THEN <<>>
    ELSE (IF map[id].parent_id = None THEN <<>>
          ELSE NamePath(map, map[id].parent_id[1], fuel - 1))
         \o PathOf(map[id].name).comps

VirtualPathOf(id) == NamePath(playlists, id, Cardinality(Ids(playlists)))

IsIgnored(id) == \E pat \in ignore_pats : PathOf(pat).comps = VirtualPathOf(id)

HasIgnoredAncestor(id) ==
    \E k \in 1..Cardinality(Ids(playlists)) :
        /\ Ancestor(playlists, id, k) /= None
        /\ Ancestor(playlists, id, k)[1] \in Ids(playlists)
        /\ IsIgnored(Ancestor(playlists, id, k)[1])

\* Every ancestor is a Folder, and every name down to the playlist is one
\* path component: its parent directories are all the run's to create.
UnderPlainFolders(id) ==
    /\ Len(VirtualPathOf(id)) = LastDepth + 1
    /\ \A k \in 1..Cardinality(Ids(playlists)) :
          Ancestor(playlists, id, k) /= None =>
              /\ Ancestor(playlists, id, k)[1] \in Ids(playlists)
              /\ playlists[Ancestor(playlists, id, k)[1]].kind = Folder

ArtifactExists(id) ==
    \/ playlists[id].kind = Folder /\ last_emit.path \in dirs
    \/ playlists[id].kind = Generic /\ last_emit.path \in DOMAIN files

RECURSIVE Ascents(_)
Ascents(n) == IF n = 0 THEN <<>> ELSE <<<<"..">>>> \o Ascents(n - 1)

\* A relative path resolved from a directory: ".." leaves a directory.
RECURSIVE Resolve(_, _)
Resolve(dir, rel) ==
    IF rel = <<>> THEN dir
    ELSE IF rel[1] = <<"..">> THEN Resolve(Front(dir), Tail(rel))
    ELSE Resolve(Append(dir, rel[1]), Tail(rel))

RECURSIVE SelectSeq2(_, _)
SelectSeq2(s, S) ==
    IF s = <<>> THEN <<>>
    ELSE IF s[1] \in S THEN <<s[1]>> \o SelectSeq2(Tail(s), S)
    ELSE SelectSeq2(Tail(s), S)

\* The tracks whose decoded location has the local-file prefix.
LocalTracks ==
    {id \in DOMAIN tracks :
        /\ Len(tracks[id].location) >= Len(LOCAL_PREFIX)
        /\ \A i \in 1..Len(LOCAL_PREFIX) : tracks[id].location[i] = LOCAL_PREFIX[i]}

CopyFailed == {id \in DOMAIN tracks : <<"error", "failed to copy", id>> \in log}

LastIndexOf(s, c) ==
    LET hits == {i \in 1..Len(s) : s[i] = c}
    IN IF hits = {} THEN 0 ELSE CHOOSE i \in hits : \A j \in hits : j <= i

\* tracks/<track_id>.<original_extension>, tracks/<track_id> for a file name
\* without extension.
ExpectedRemote(id) ==
    LET loc == tracks[id].location
        dot == LastIndexOf(loc, ".")
        slash == LastIndexOf(loc, "/")
    IN [abs |-> FALSE,
        comps |-> <<TRACKS_DIR,
                    IF dot > slash + 1
                    THEN <<ToString(id), ".">> \o SubSeq(loc, dot + 1, Len(loc))
                    ELSE <<ToString(id)>>>>]

--------------------------------------------------------------------------
(* C3: a node whose virtual path matches an ignore pattern produces no     *)
(* file system artifact, and the match affects that node only: every       *)
(* descendant is still visited and tested on its own virtual path, and a   *)
(* Folder or Generic descendant that does not match is still emitted.      *)
C3_IgnoreAffectsOnlyTheNode ==
    (RealRun /\ Visiting) =>
        /\ IsIgnored(LastId) => last_emit.outcome = "ignored"
        /\ pc = "done" => visits = PreOrder(playlists, None, 0)
        /\ (/\ ~IsIgnored(LastId)
            /\ HasIgnoredAncestor(LastId)
            /\ UnderPlainFolders(LastId)
            /\ playlists[LastId].kind \in {Folder, Generic})
               => ArtifactExists(LastId)

--------------------------------------------------------------------------
(* C4: when a Generic playlist is emitted in a real run, every track of    *)
(* its items that is absent from the remote-path map is silently omitted:  *)
(* the file is still written with one entry per remaining track, in the    *)
(* playlist's order, and the run neither fails nor aborts.                 *)
C4_MissingTracksAreOmitted ==
    RealRun =>
        /\ panic_at /= "remote_paths[&track_id]"
        /\ (Visiting /\ last_emit.outcome = "file") =>
               [k \in 1..Len(last_emit.entries) |-> last_emit.entries[k].name] =
               [k \in 1..Len(SelectSeq2(playlists[LastId].items, DOMAIN remote_paths)) |->
                   tracks[SelectSeq2(playlists[LastId].items, DOMAIN remote_paths)[k]].name]

--------------------------------------------------------------------------
(* C5: in dry-run mode no step of the run (copy_tracks, copy_playlists)    *)
(* creates a directory or a file: the file system is left as it was.       *)
C5_DryRunMutatesNothing ==
    [][args.dry_run => (dirs' = dirs /\ files' = files)]_vars

--------------------------------------------------------------------------
(* C6 (as claimed): in a real run copy_tracks attempts the copy of every   *)
(* track with the local-file prefix, returns normally, and returns a map   *)
(* of exactly the tracks whose copy succeeded, each mapped to              *)
(* tracks/<track_id>.<original_extension>.                                 *)
RemoteMapIsExact ==
    /\ attempted = LocalTracks
    /\ DOMAIN remote_paths = LocalTracks \ CopyFailed
    /\ \A id \in DOMAIN remote_paths :
          /\ remote_paths[id] = ExpectedRemote(id)
          /\ Join(args.output_path, ExpectedRemote(id)) \in DOMAIN files

C6_CopyTracksAlwaysReturnsTheMap ==
    (RealRun /\ LocalTracks /= {} /\ pc \in {"io_error", "copy_playlists"}) =>
        (pc = "copy_playlists" /\ RemoteMapIsExact)

(* C6 (amended): in a real run, once the tracks directory is created,      *)
(* copy_tracks attempts the copy of every track with the local-file        *)
(* prefix whatever the earlier copies did, returns normally, and returns   *)
(* a map of exactly the tracks whose copy succeeded, each mapped to        *)
(* tracks/<track_id>.<original_extension> (tracks/<track_id> when the      *)
(* file name has no extension).  When the tracks directory cannot be       *)
(* created it returns that error, having attempted no copy.                *)
C6_CopyTracksMapsTheCopiedTracks ==
    RealRun =>
        /\ pc = "io_error" => (attempted = {} /\ ~DirExists(TracksDir))
        /\ pc = "copy_loop" =>
               /\ attempted = LocalTracks \ pending
               /\ DOMAIN remote_paths = attempted \ CopyFailed
        /\ pc = "copy_playlists" => RemoteMapIsExact

\* copy_tracks returned after one copy failed and two succeeded, one of them
\* of a file without extension.
C6_Witness ==
    /\ RealRun
    /\ pc = "copy_playlists"
    /\ CopyFailed /= {}
    /\ \E id \in DOMAIN remote_paths : Len(remote_paths[id].comps[2]) = 1
    /\ \E id \in DOMAIN remote_paths : Len(remote_paths[id].comps[2]) = 3

--------------------------------------------------------------------------
(* C7: for any output path, relative or absolute, the current path at      *)
(* each visit is <output>/playlists followed by the node's ancestor-name   *)
(* chain, so the virtual path is defined at every visit, and every Folder  *)
(* directory and Generic file is created at <output>/playlists/<names>.    *)
C7_CurrentPathIsUnderOutputPlaylists ==
    /\ panic_at /= "strip_prefix.unwrap"
    /\ Visiting =>
           /\ current_path.abs = OutputPlaylists.abs
           /\ current_path.comps = OutputPlaylists.comps \o VirtualPathOf(LastId)
           /\ last_emit.outcome \in {"dir", "file"} =>
                  SetExtension(last_emit.path, <<>>).comps =
                      OutputPlaylists.comps \o VirtualPathOf(LastId)

--------------------------------------------------------------------------
(* C8: for a Generic playlist emitted at depth d, every entry's relative   *)
(* path is d + 1 ascent markers followed by the track's remote path, so    *)
(* that, resolved from the directory of the playlist file, it is the       *)
(* track's copy under <output>/tracks.                                     *)
C8_EntriesAscendToTheTracks ==
    (RealRun /\ last_emit.outcome = "file") =>
        \A k \in 1..Len(last_emit.entries) :
            LET remote == remote_paths[playlists[LastId].items[k]]
            IN /\ last_emit.entries[k].path.comps =
                      Ascents(LastDepth + 1) \o remote.comps
               /\ Resolve(Front(last_emit.path.comps),
                          last_emit.entries[k].path.comps) =
                      args.output_path.comps \o remote.comps
               /\ Join(args.output_path, remote) \in DOMAIN files

--------------------------------------------------------------------------
(* C2: after the visitor's update (pop last_depth - depth + 1 components   *)
(* when depth <= last_depth, then push the name) the path above its base   *)
(* is the chain of names from the root ancestor to the current node, so    *)
(* it has depth + 1 components.                                            *)
RECURSIVE NameChain(_, _, _)
NameChain(map, id, fuel) ==
    IF fuel = 0 \/ id \notin Ids(map) THEN <<>>
    ELSE (IF map[id].parent_id = None THEN <<>>
          ELSE NameChain(map, map[id].parent_id[1], fuel - 1))
         \o <<map[id].name>>

C2_PathStackIsNameChain ==
    (Loaded /\ visits /= <<>>) =>
        /\ Len(current_path.comps) = Last(visits)[2] + 1
        /\ current_path.comps =
               NameChain(playlists, Last(visits)[1], Cardinality(Ids(playlists)))

==========================================================================
